---- MODULE Spec2Model ----
(***************************************************************************)
(* Model of design/application/application/hw.py: the HW session class     *)
(* that drives the FPGA microphone-array board through /dev/mem.           *)
(*                                                                         *)
(* The software is one sequential thread (pc is its position); the board   *)
(* is a second process whose steps (hw_write_frame, hw_swap) interleave    *)
(* with every software step, which is why the spin loops of __init__ and   *)
(* swap_buffers are modelled one register read at a time.                  *)
(***************************************************************************)
EXTENDS Integers, Sequences, FiniteSets, TLC

\* ---------------------------------------------------------------- bounds
\* Bytes the board may write into one buffer half before the model stops it
\* (the real half is BufBytes \div 2 bytes long).
MaxOffset == 8
\* Release counts are capped here (only a broken guard can reach the cap).
MaxRelease == 2

\* ------------------------------------------------------ program constants
TestAdd == 4660          \* 0x1234, hw.py:42
TestMul == 3             \* hw.py:42
HalfWord == 65536        \* 0xFFFF_FFFF of hw.py:42 as two 16-bit halves <<hi, lo>>
BufBytes == 16777216     \* 0x100_0000, hw.py:26
MinGain == 1             \* hw.py:90
MaxGain == 256           \* hw.py:90

LedShift == 32           \* << 5, hw.py:132
LedField == 255          \* 0xFF, hw.py:132
BlinkEvery == 5          \* hw.py:170
BlinkWrap == 100         \* hw.py:179
NumBlinks == 5           \* num_blinks, hw.py:183

\* values_list of LED_idle, hw.py:139-140 (Python index i is element i + 1)
IdleValues == <<128, 128, 64, 64, 32, 32, 16, 16, 8, 8, 4, 4, 2, 2, 1, 1>>
\* values_list of button_press_indicate, hw.py:158
PressValues == <<0, 128, 192, 224, 240, 248, 252, 254, 255>>
\* The table of button_press_indicate with every pattern mirrored.
PressValuesR_mirrored == <<255, 127, 63, 31, 15, 7, 3, 1, 0>>
\* values_list of button_press_indicate_r, hw.py:163
PressValuesR == <<255, 254, 252, 248, 240, 224, 192, 128, 0>>

\* Samples in one half: np.frombuffer(..., int16).reshape(2, -1), hw.py:34
HalfSamples == (BufBytes \div 2) \div 2

Res == {"buf_fd", "reg_fd", "buf_mmap", "reg_mmap"}
Fds == {"buf_fd", "reg_fd"}
Maps == {"buf_mmap", "reg_mmap"}

\* Register indices the session touches (word offsets of the register map).
RegIdx == {2, 3, 4, 5, 8, 9, 10, 11}

\* ------------------------------------------------------------ input sets
\* Initial contents of the scratch register 0, as <<hi, lo>>:
\* 0xFFFFE4B2 and 0xFFFFFFFF (both make the permutation wrap).
Reg0Values == {<<65535, 58546>>, <<65535, 65535>>}
\* Packed parameter words of register 8: mics | chans << 8 | taps << 16.
\* 4 mics, 2 channels, 63 taps.
R8Values == {4 + 2 * 256 + 63 * 65536}
\* Sample rate register 9.
R9Values == {48000}
\* Gains the caller passes to set_gain: the two ends of the range and their
\* neighbours outside it.
GainInputs == {MinGain - 1, MinGain, MaxGain, MaxGain + 1}
\* Numbers the caller passes to button_press_indicate and
\* button_press_indicate_r: every index of the tables and the first one past
\* their end.
PressInputs == 0 .. Len(PressValues)
\* Two of them, for runs that mix every LED operation: one number inside the
\* tables and the first one past their end.
PressSome == {3, Len(PressValues)}
\* Input bits of register 11 the board presents (bit 0 button, bits 1..4 gain
\* switch, bit 13 off-button): nothing pressed, and everything pressed with
\* the switch at 15.
InputValues == {0, 1 + 2 * 15 + 8192}

VARIABLES
  \* ---- the board and the bus (register window behind VolatileU32Array)
  r0,           \* register 0 (test/scratch), <<hi, lo>>
  r0_init,      \* history: register 0 before the session was constructed
  bus_stores,   \* whether the bus stores the write of the liveness check
  regs,         \* registers 2,3,4,5,8,9,10,11
  active,       \* buffer half the board is writing
  offset,       \* bytes written into the active half so far
  r3_half,      \* history: the half the value of register 3 describes
  hw_swapped,   \* history: the board completed a swap since the last request
  \* ---- the operating system
  os_held,      \* resource -> currently open / mapped
  os_releases,  \* resource -> times released
  \* ---- the session object (self)
  pc,           \* position of the software thread
  closed,       \* self._closed: "unset", "True", "False"
  r,            \* self.r / self.d: "unset", "view", "None"
  params,       \* [num_mics, num_chans, num_taps, mic_freq_hz] (zeros until line 48 runs)
  store_raw,    \* self._store_raw_data (FALSE until line 55 runs)
  led,          \* [idle_num, previous_idle_num, rec_blink_value, rec_blink_state]
  idle_calls,   \* history: LED_idle calls made so far, counted modulo IdlePeriod
  blink_i,      \* LED_quick_blink local: iterations of its loop completed
  \* ---- locals and results of the running / last operation
  caller,       \* who called swap_buffers
  status,       \* last value read from register 2 by a spin loop
  which,        \* swap_buffers local
  where,        \* swap_buffers local
  where_half,   \* history: r3_half when where was read
  ret_which,    \* which_half returned by the last swap_buffers, -1 if none
  prev_which,   \* which_half returned by the swap_buffers before, -1 if none
  view,         \* the view get_data returned, [half, rows, cols]; NoView when none is valid
  swap_calls,   \* history: swap requests written by the current operation
  last_op,      \* name of the last operation called
  last_err,     \* exception class it raised, "none" if it returned
  args,         \* its arguments
  init_err,     \* outcome of __init__: "running", "none" or the exception class
  writes        \* history: register writes it performed, as a set of indices

hwVars == <<r0, r0_init, bus_stores, regs, active, offset, r3_half, hw_swapped>>
osVars == <<os_held, os_releases>>
selfVars == <<closed, r, params, store_raw, led, idle_calls, blink_i>>
opVars == <<caller, status, which, where, where_half, ret_which, prev_which, view,
            swap_calls, last_op, last_err, args, init_err, writes>>
vars == <<hwVars, osVars, pc, selfVars, opVars>>

NoParams == [num_mics |-> 0, num_chans |-> 0, num_taps |-> 0, mic_freq_hz |-> 0]
NoLed == [idle_num |-> 0, previous_idle_num |-> 0, rec_blink_value |-> 0, rec_blink_state |-> FALSE]
NoView == [half |-> -1, rows |-> 0, cols |-> 0]

\* ------------------------------------------------- 32-bit arithmetic
\* ((val + 0x1234) * 3) & 0xFFFF_FFFF on <<hi, lo>>
Permute(val) ==
  LET lo1 == val[2] + TestAdd
      hi1 == val[1] + (lo1 \div HalfWord)
      lo3 == (lo1 % HalfWord) * TestMul
      hi3 == hi1 * TestMul + (lo3 \div HalfWord)
  IN  <<hi3 % HalfWord, lo3 % HalfWord>>

\* ------------------------------------------------- register window
\* VolatileU32Array.__getitem__: one bus read.
RegRead(i) == regs[i]

\* What a bus write of v to register i leaves in the registers: register 2
\* is write-1-to-request (bit 0 set, bit 1 kept), 3, 8 and 9 are read-only,
\* the others store the value.
RegStore(i, v) ==
  IF i = 2 THEN [regs EXCEPT ![2] = IF v % 2 = 1 THEN (regs[2] \div 2) * 2 + 1 ELSE regs[2]]
  ELSE IF i \in {3, 8, 9} THEN regs
  ELSE [regs EXCEPT ![i] = v]

\* a & b and a | b on naturals.
RECURSIVE BitAnd(_, _)
BitAnd(a, b) ==
  IF a = 0 \/ b = 0 THEN 0
  ELSE (IF a % 2 = 1 /\ b % 2 = 1 THEN 1 ELSE 0) + 2 * BitAnd(a \div 2, b \div 2)

RECURSIVE BitOr(_, _)
BitOr(a, b) ==
  IF a = 0 THEN b
  ELSE IF b = 0 THEN a
  ELSE (IF a % 2 = 1 \/ b % 2 = 1 THEN 1 ELSE 0) + 2 * BitOr(a \div 2, b \div 2)

\* v & ~m for a natural v: the bits of m cleared.
BitClear(v, m) == v - BitAnd(v, m)

\* Bits 5..12 of a value of register 11, and the rest of it.
Field(v) == (v \div LedShift) % (LedField + 1)
Inputs(v) == v - LedShift * Field(v)

\* The board presents new input bits in register 11 (a button pressed or
\* released, the gain switch turned); the LED field is the software's.
hw_input ==
  /\ \E inp \in InputValues :
       /\ inp # Inputs(regs[11])
       /\ regs' = [regs EXCEPT ![11] = inp + LedShift * Field(regs[11])]
  /\ UNCHANGED <<r0, r0_init, bus_stores, active, offset, r3_half, hw_swapped>>
  /\ UNCHANGED <<osVars, pc, selfVars, opVars>>

\* Row width the board stores per frame: microphones in raw mode (register
\* 10 bit 0 set), channels in processed mode.
HwFrameWidth ==
  IF regs[10] % 2 = 1 THEN regs[8] % 256 ELSE (regs[8] \div 256) % 256

\* The board appends one frame of 16-bit samples to the active half.
hw_write_frame ==
  /\ offset + 2 * HwFrameWidth <= MaxOffset
  /\ offset' = offset + 2 * HwFrameWidth
  /\ UNCHANGED <<r0, r0_init, bus_stores, regs, active, r3_half, hw_swapped>>
  /\ UNCHANGED <<osVars, pc, selfVars, opVars>>

\* The board serves a pending swap request: the half it was writing becomes
\* the ready half (status bit 1), its fill level goes to register 3, the
\* busy bit clears and writing continues at the start of the other half.
hw_swap ==
  /\ regs[2] % 2 = 1
  /\ regs' = [regs EXCEPT ![2] = 2 * active, ![3] = offset]
  /\ r3_half' = active
  /\ active' = 1 - active
  /\ offset' = 0
  /\ hw_swapped' = TRUE
  /\ UNCHANGED <<r0, r0_init, bus_stores>>
  /\ UNCHANGED <<osVars, pc, selfVars, opVars>>

\* ------------------------------------------------- operating system
Acquire(x) == os_held' = [os_held EXCEPT ![x] = TRUE]

Bump(n) == IF n < MaxRelease THEN n + 1 ELSE n

\* Close / unmap every resource of S.
Release(S) ==
  /\ os_held' = [x \in Res |-> IF x \in S THEN FALSE ELSE os_held[x]]
  /\ os_releases' = [x \in Res |-> IF x \in S THEN Bump(os_releases[x]) ELSE os_releases[x]]

Init ==
  /\ r0 \in Reg0Values
  /\ r0_init = r0
  /\ bus_stores \in BOOLEAN
  /\ active \in {0, 1}
  /\ \E busy \in {0, 1}, p1 \in R8Values, p2 \in R9Values, mode \in {0, 1} :
       regs = [i \in RegIdx |->
                 CASE i = 2 -> busy + 2 * (1 - active)
                   [] i = 8 -> p1
                   [] i = 9 -> p2
                   [] i = 10 -> mode
                   [] OTHER -> 0]
  /\ offset = 0
  /\ r3_half = 1 - active
  /\ hw_swapped = FALSE
  /\ os_held = [x \in Res |-> FALSE]
  /\ os_releases = [x \in Res |-> 0]
  /\ pc = "new"
  /\ closed = "unset"
  /\ r = "unset"
  /\ params = NoParams
  /\ store_raw = FALSE
  /\ led = NoLed
  /\ idle_calls = 0
  /\ blink_i = 0
  /\ caller = "none"
  /\ status = 0
  /\ which = 0
  /\ where = 0
  /\ where_half = 0
  /\ ret_which = -1
  /\ prev_which = -1
  /\ view = NoView
  /\ swap_calls = 0
  /\ last_op = "none"
  /\ last_err = "none"
  /\ args = <<>>
  /\ init_err = "running"
  /\ writes = {}

\* ------------------------------------------------- HW.__init__
\* The constructor raises err: the object is left as it is.
InitFails(err) ==
  /\ pc' = "failed"
  /\ init_err' = err
  /\ last_op' = "__init__"
  /\ last_err' = err

\* Lines 14-18: the first os.open; only PermissionError sets _closed.
open_buf_fd ==
  /\ pc = "new"
  /\ \E outcome \in {"ok", "PermissionError", "OSError"} :
       IF outcome = "ok"
       THEN /\ Acquire("buf_fd")
            /\ pc' = "open_reg_fd"
            /\ UNCHANGED <<closed, init_err, last_op, last_err>>
       ELSE /\ InitFails(outcome)
            /\ closed' = IF outcome = "PermissionError" THEN "True" ELSE closed
            /\ UNCHANGED os_held
  /\ UNCHANGED <<hwVars, os_releases, r, params, store_raw, led, idle_calls, blink_i>>
  /\ UNCHANGED <<caller, status, which, where, where_half, ret_which, prev_which, view,
                 swap_calls, args, writes>>

\* Line 20: the second os.open, outside any try.
open_reg_fd ==
  /\ pc = "open_reg_fd"
  /\ \E ok \in BOOLEAN :
       IF ok
       THEN /\ Acquire("reg_fd")
            /\ pc' = "map_buf"
            /\ UNCHANGED <<init_err, last_op, last_err>>
       ELSE /\ InitFails("OSError")
            /\ UNCHANGED os_held
  /\ UNCHANGED <<hwVars, os_releases, selfVars>>
  /\ UNCHANGED <<caller, status, which, where, where_half, ret_which, prev_which, view,
                 swap_calls, args, writes>>

\* Lines 25-26: mmap of the sample buffer.
map_buf ==
  /\ pc = "map_buf"
  /\ \E ok \in BOOLEAN :
       IF ok
       THEN /\ Acquire("buf_mmap")
            /\ pc' = "map_reg"
            /\ UNCHANGED <<init_err, last_op, last_err>>
       ELSE /\ InitFails("OSError")
            /\ UNCHANGED os_held
  /\ UNCHANGED <<hwVars, os_releases, selfVars>>
  /\ UNCHANGED <<caller, status, which, where, where_half, ret_which, prev_which, view,
                 swap_calls, args, writes>>

\* Lines 28-36 without line 38: _closed is never assigned.
map_reg_no_flag ==
  /\ pc = "map_reg"
  /\ \E ok \in BOOLEAN :
       IF ok
       THEN /\ Acquire("reg_mmap")
            /\ r' = "view"
            /\ pc' = "test"
            /\ UNCHANGED <<closed, init_err, last_op, last_err>>
       ELSE /\ InitFails("OSError")
            /\ UNCHANGED <<os_held, r, closed>>
  /\ UNCHANGED <<hwVars, os_releases, params, store_raw, led, idle_calls, blink_i>>
  /\ UNCHANGED <<caller, status, which, where, where_half, ret_which, prev_which, view,
                 swap_calls, args, writes>>

\* Lines 28-38: mmap of the register window, the two array views, _closed.
map_reg ==
  /\ pc = "map_reg"
  /\ \E ok \in BOOLEAN :
       IF ok
       THEN /\ Acquire("reg_mmap")
            /\ r' = "view"
            /\ closed' = "False"
            /\ pc' = "test"
            /\ UNCHANGED <<init_err, last_op, last_err>>
       ELSE /\ InitFails("OSError")
            /\ UNCHANGED <<os_held, r, closed>>
  /\ UNCHANGED <<hwVars, os_releases, params, store_raw, led, idle_calls, blink_i>>
  /\ UNCHANGED <<caller, status, which, where, where_half, ret_which, prev_which, view,
                 swap_calls, args, writes>>

\* Lines 41-45: read register 0, permute, write back, compare the readback.
test_register ==
  /\ pc = "test"
  /\ LET val == Permute(r0)
         stored == IF bus_stores THEN val ELSE r0
     IN  /\ r0' = stored
         /\ IF stored # val
            THEN InitFails("ValueError")
            ELSE /\ pc' = "params"
                 /\ UNCHANGED <<init_err, last_op, last_err>>
  /\ writes' = {0}
  /\ UNCHANGED <<r0_init, bus_stores, regs, active, offset, r3_half, hw_swapped>>
  /\ UNCHANGED <<osVars, selfVars>>
  /\ UNCHANGED <<caller, status, which, where, where_half, ret_which, prev_which, view,
                 swap_calls, args>>

\* Lines 48-55: decode the parameter registers and mirror the capture mode.
read_params ==
  /\ pc = "params"
  /\ LET p1 == RegRead(8)
         p2 == RegRead(9)
     IN  params' = [num_mics |-> p1 % 256,
                    num_chans |-> (p1 \div 256) % 256,
                    num_taps |-> (p1 \div 65536) % 256,
                    mic_freq_hz |-> p2 % 65536]
  /\ store_raw' = (RegRead(10) # 0)
  /\ pc' = "drain"
  /\ UNCHANGED <<hwVars, osVars, closed, r, led, idle_calls, blink_i, opVars>>

\* Lines 58-64 with the status read once and the loop never entered.
drain_once ==
  /\ pc = "drain"
  /\ status' = RegRead(2)
  /\ led' = [idle_num |-> 0, previous_idle_num |-> -1,
             rec_blink_value |-> 0, rec_blink_state |-> TRUE]
  /\ pc' = "idle"
  /\ init_err' = "none"
  /\ last_op' = "__init__"
  /\ last_err' = "none"
  /\ UNCHANGED <<hwVars, osVars, closed, r, params, store_raw, idle_calls, blink_i>>
  /\ UNCHANGED <<caller, which, where, where_half, ret_which, prev_which, view,
                 swap_calls, args, writes>>

\* Lines 58-64: one read of the drain loop; on a clear busy bit the LED
\* state is set up and the constructor returns.
drain ==
  /\ pc = "drain"
  /\ status' = RegRead(2)
  /\ IF status' % 2 = 1
     THEN UNCHANGED <<pc, led, init_err, last_op, last_err>>
     ELSE /\ led' = [idle_num |-> 0, previous_idle_num |-> -1,
                     rec_blink_value |-> 0, rec_blink_state |-> TRUE]
          /\ pc' = "idle"
          /\ init_err' = "none"
          /\ last_op' = "__init__"
          /\ last_err' = "none"
  /\ UNCHANGED <<hwVars, osVars, closed, r, params, store_raw, idle_calls, blink_i>>
  /\ UNCHANGED <<caller, which, where, where_half, ret_which, prev_which, view,
                 swap_calls, args, writes>>

\* ------------------------------------------------- HW.swap_buffers
\* Line 70 without the register write: the request never reaches the board.
Line70_norequest(c, w, n) ==
  IF r = "view"
  THEN /\ hw_swapped' = FALSE
       /\ pc' = "spin"
       /\ caller' = c
       /\ swap_calls' = n + 1
       /\ writes' = w
       /\ view' = NoView
       /\ last_err' = "none"
       /\ UNCHANGED regs
  ELSE /\ pc' = "idle"
       /\ caller' = "none"
       /\ swap_calls' = n
       /\ writes' = w
       /\ last_err' = "TypeError"
       /\ UNCHANGED <<regs, hw_swapped, view>>

\* Line 70, self.r[2] = 1, run on behalf of operation c, which has written
\* the registers w and made n swap requests so far: the request is written
\* and the spin loop entered (a view handed out earlier stops being valid),
\* or self.r is None and the subscript raises TypeError.
Line70(c, w, n) ==
  IF r = "view"
  THEN /\ regs' = RegStore(2, 1)
       /\ hw_swapped' = FALSE
       /\ pc' = "spin"
       /\ caller' = c
       /\ swap_calls' = n + 1
       /\ writes' = w \cup {2}
       /\ view' = NoView
       /\ last_err' = "none"
  ELSE /\ pc' = "idle"
       /\ caller' = "none"
       /\ swap_calls' = n
       /\ writes' = w
       /\ last_err' = "TypeError"
       /\ UNCHANGED <<regs, hw_swapped, view>>

\* The caller calls swap_buffers().
swap_buffers ==
  /\ pc = "idle"
  /\ last_op' = "swap_buffers"
  /\ args' = <<>>
  /\ Line70("swap_buffers", {}, 0)
  /\ UNCHANGED <<r0, r0_init, bus_stores, active, offset, r3_half>>
  /\ UNCHANGED <<osVars, selfVars>>
  /\ UNCHANGED <<status, which, where, where_half, ret_which, prev_which, init_err>>

\* Line 72 with an if in place of the while: the status is read once.
swap_buffers_spin_once ==
  /\ pc = "spin"
  /\ status' = RegRead(2)
  /\ pc' = "where"
  /\ UNCHANGED <<hwVars, osVars, selfVars>>
  /\ UNCHANGED <<caller, which, where, where_half, ret_which, prev_which, view,
                 swap_calls, last_op, last_err, args, init_err, writes>>

\* Line 72 with the test inverted: spin until the busy bit is set.
swap_buffers_spin_inverted ==
  /\ pc = "spin"
  /\ status' = RegRead(2)
  /\ pc' = IF status' % 2 = 0 THEN "spin" ELSE "where"
  /\ UNCHANGED <<hwVars, osVars, selfVars>>
  /\ UNCHANGED <<caller, which, where, where_half, ret_which, prev_which, view,
                 swap_calls, last_op, last_err, args, init_err, writes>>

\* Line 72: one read of the spin loop.
swap_buffers_spin ==
  /\ pc = "spin"
  /\ status' = RegRead(2)
  /\ pc' = IF status' % 2 = 1 THEN "spin" ELSE "where"
  /\ UNCHANGED <<hwVars, osVars, selfVars>>
  /\ UNCHANGED <<caller, which, where, where_half, ret_which, prev_which, view,
                 swap_calls, last_op, last_err, args, init_err, writes>>

\* Lines 74-76 taking status bit 1 for the active half, not the ready one.
swap_buffers_return_other_half ==
  /\ pc = "where"
  /\ which' = 1 - ((status \div 2) % 2)
  /\ where' = RegRead(3)
  /\ where_half' = r3_half
  /\ prev_which' = ret_which
  /\ ret_which' = which'
  /\ pc' = IF caller = "get_data" THEN "reshape" ELSE "idle"
  /\ UNCHANGED <<hwVars, osVars, selfVars>>
  /\ UNCHANGED <<caller, status, view, swap_calls, last_op, last_err, args, init_err, writes>>

\* Lines 74-76: decode the half, read register 3, return (which, where).
swap_buffers_return ==
  /\ pc = "where"
  /\ which' = (status \div 2) % 2
  /\ where' = RegRead(3)
  /\ where_half' = r3_half
  /\ prev_which' = ret_which
  /\ ret_which' = which'
  /\ pc' = IF caller = "get_data" THEN "reshape" ELSE "idle"
  /\ UNCHANGED <<hwVars, osVars, selfVars>>
  /\ UNCHANGED <<caller, status, view, swap_calls, last_op, last_err, args, init_err, writes>>

\* ------------------------------------------------- HW.get_data
\* self.d[which_buf, :buf_pos].reshape(-1, dim): the slice is clamped to the
\* half; numpy refuses a zero width and a sample count the width does not
\* divide. The result is <<ok, rows, cols>>.
Reshape(buf_pos, dim) ==
  LET n == IF buf_pos > HalfSamples THEN HalfSamples ELSE buf_pos
  IN  IF dim = 0 \/ n % dim # 0
      THEN <<FALSE, 0, 0>>
      ELSE <<TRUE, n \div dim, dim>>

\* Line 83 ignoring the capture mode.
Dim_always_mics == params.num_mics

\* Line 83: the row width.
Dim == IF store_raw THEN params.num_mics ELSE params.num_chans

\* Line 80: the caller calls get_data(), which calls swap_buffers().
get_data ==
  /\ pc = "idle"
  /\ last_op' = "get_data"
  /\ args' = <<>>
  /\ Line70("get_data", {}, 0)
  /\ UNCHANGED <<r0, r0_init, bus_stores, active, offset, r3_half>>
  /\ UNCHANGED <<osVars, selfVars>>
  /\ UNCHANGED <<status, which, where, where_half, ret_which, prev_which, init_err>>

\* Lines 81-84: halve the byte offset, slice, reshape, return the view.
get_data_return ==
  /\ pc = "reshape"
  /\ LET buf_pos == where \div 2
         res == Reshape(buf_pos, Dim)
     IN  IF res[1]
         THEN /\ view' = [half |-> which, rows |-> res[2], cols |-> res[3]]
              /\ last_err' = "none"
         ELSE /\ view' = NoView
              /\ last_err' = "ValueError"
  /\ pc' = "idle"
  /\ UNCHANGED <<hwVars, osVars, selfVars>>
  /\ UNCHANGED <<caller, status, which, where, where_half, ret_which, prev_which,
                 swap_calls, last_op, args, init_err, writes>>

\* ------------------------------------------------- setters
\* Lines 89-93 writing gain and not gain - 1.
set_gain_unshifted(gain) ==
  /\ pc = "idle"
  /\ last_op' = "set_gain"
  /\ args' = <<gain>>
  /\ IF gain < MinGain \/ gain > MaxGain
     THEN /\ last_err' = "ValueError"
          /\ writes' = {}
          /\ UNCHANGED regs
     ELSE IF r # "view"
     THEN /\ last_err' = "TypeError"
          /\ writes' = {}
          /\ UNCHANGED regs
     ELSE /\ regs' = RegStore(4, gain)
          /\ writes' = {4}
          /\ last_err' = "none"
  /\ swap_calls' = 0
  /\ UNCHANGED <<r0, r0_init, bus_stores, active, offset, r3_half, hw_swapped>>
  /\ UNCHANGED <<osVars, pc, selfVars>>
  /\ UNCHANGED <<caller, status, which, where, where_half, ret_which, prev_which, view,
                 init_err>>

\* Lines 89-93.
set_gain(gain) ==
  /\ pc = "idle"
  /\ last_op' = "set_gain"
  /\ args' = <<gain>>
  /\ IF gain < MinGain \/ gain > MaxGain
     THEN /\ last_err' = "ValueError"
          /\ writes' = {}
          /\ UNCHANGED regs
     ELSE IF r # "view"
     THEN /\ last_err' = "TypeError"
          /\ writes' = {}
          /\ UNCHANGED regs
     ELSE /\ regs' = RegStore(4, gain - 1)
          /\ writes' = {4}
          /\ last_err' = "none"
  /\ swap_calls' = 0
  /\ UNCHANGED <<r0, r0_init, bus_stores, active, offset, r3_half, hw_swapped>>
  /\ UNCHANGED <<osVars, pc, selfVars>>
  /\ UNCHANGED <<caller, status, which, where, where_half, ret_which, prev_which, view,
                 init_err>>

\* Line 98.
set_use_fake_mics(use_fake_mics) ==
  /\ pc = "idle"
  /\ last_op' = "set_use_fake_mics"
  /\ args' = <<use_fake_mics>>
  /\ IF r # "view"
     THEN /\ last_err' = "TypeError"
          /\ writes' = {}
          /\ UNCHANGED regs
     ELSE /\ regs' = RegStore(5, IF use_fake_mics THEN 1 ELSE 0)
          /\ writes' = {5}
          /\ last_err' = "none"
  /\ swap_calls' = 0
  /\ UNCHANGED <<r0, r0_init, bus_stores, active, offset, r3_half, hw_swapped>>
  /\ UNCHANGED <<osVars, pc, selfVars>>
  /\ UNCHANGED <<caller, status, which, where, where_half, ret_which, prev_which, view,
                 init_err>>

\* Lines 103-106 without line 103: the register is written, the mirror is not.
set_store_raw_data_nomirror(store_raw_data, wait) ==
  /\ pc = "idle"
  /\ last_op' = "set_store_raw_data"
  /\ args' = <<store_raw_data, wait>>
  /\ IF r # "view"
     THEN /\ last_err' = "TypeError"
          /\ writes' = {}
          /\ UNCHANGED <<regs, pc>>
     ELSE /\ regs' = RegStore(10, IF store_raw_data THEN 1 ELSE 0)
          /\ writes' = {10}
          /\ last_err' = "none"
          /\ pc' = IF wait THEN "sleep" ELSE "idle"
  /\ swap_calls' = 0
  /\ UNCHANGED <<r0, r0_init, bus_stores, active, offset, r3_half, hw_swapped>>
  /\ UNCHANGED <<osVars, selfVars>>
  /\ UNCHANGED <<caller, status, which, where, where_half, ret_which, prev_which, view,
                 init_err>>

\* Lines 103-106: the mirror first, then register 10; with wait the call
\* goes on to the settle sleep.
set_store_raw_data(store_raw_data, wait) ==
  /\ pc = "idle"
  /\ last_op' = "set_store_raw_data"
  /\ args' = <<store_raw_data, wait>>
  /\ store_raw' = store_raw_data
  /\ IF r # "view"
     THEN /\ last_err' = "TypeError"
          /\ writes' = {}
          /\ UNCHANGED <<regs, pc>>
     ELSE /\ regs' = RegStore(10, IF store_raw_data THEN 1 ELSE 0)
          /\ writes' = {10}
          /\ last_err' = "none"
          /\ pc' = IF wait THEN "sleep" ELSE "idle"
  /\ swap_calls' = 0
  /\ UNCHANGED <<r0, r0_init, bus_stores, active, offset, r3_half, hw_swapped>>
  /\ UNCHANGED <<osVars, closed, r, params, led, idle_calls, blink_i>>
  /\ UNCHANGED <<caller, status, which, where, where_half, ret_which, prev_which, view,
                 init_err>>

\* Lines 106-110 without line 110: the settle sleep, then no swap.
set_store_raw_data_wait_noswap ==
  /\ pc = "sleep"
  /\ IF params.mic_freq_hz = 0
     THEN last_err' = "ZeroDivisionError"
     ELSE last_err' = "none"
  /\ pc' = "idle"
  /\ UNCHANGED <<hwVars, osVars, selfVars>>
  /\ UNCHANGED <<caller, status, which, where, where_half, ret_which, prev_which, view,
                 swap_calls, last_op, args, init_err, writes>>

\* Lines 109-110: the settle sleep is over (its length divides by the sample
\* rate), then swap_buffers() discards the transitional buffer.
set_store_raw_data_wait ==
  /\ pc = "sleep"
  /\ IF params.mic_freq_hz = 0
     THEN /\ last_err' = "ZeroDivisionError"
          /\ pc' = "idle"
          /\ UNCHANGED <<regs, hw_swapped, caller, swap_calls, writes, view>>
     ELSE Line70("set_store_raw_data", writes, swap_calls)
  /\ UNCHANGED <<r0, r0_init, bus_stores, active, offset, r3_half>>
  /\ UNCHANGED <<osVars, selfVars>>
  /\ UNCHANGED <<status, which, where, where_half, ret_which, prev_which,
                 last_op, args, init_err>>

\* ------------------------------------------------- HW.close / HW.__del__
\* Lines 195-209 without the guard of lines 193-194.
CloseBody_noguard ==
  /\ r' = "None"
  /\ Release(Res)
  /\ closed' = "True"
  /\ last_err' = "none"

\* Lines 193-209 as a step of state: the guard, then both views dropped,
\* both mappings closed, both descriptors closed, the flag set.
CloseBody ==
  IF closed = "True"
  THEN /\ last_err' = "ValueError"
       /\ UNCHANGED <<os_held, os_releases, r, closed>>
  ELSE /\ r' = "None"
       /\ Release(Res)
       /\ closed' = "True"
       /\ last_err' = "none"

\* The caller calls close().
close ==
  /\ pc = "idle"
  /\ last_op' = "close"
  /\ args' = <<>>
  /\ CloseBody
  /\ writes' = {}
  /\ swap_calls' = 0
  /\ UNCHANGED <<hwVars, pc, params, store_raw, led, idle_calls, blink_i>>
  /\ UNCHANGED <<caller, status, which, where, where_half, ret_which, prev_which, view,
                 init_err>>

\* Lines 211-213, run when the object is dropped: after a constructor that
\* raised, or when the caller lets go of the session. Reading a _closed that
\* was never assigned raises AttributeError and close() is not reached; the
\* mmap objects the instance still references are then unmapped by their own
\* deallocation, the integer descriptors stay open.
__del__ ==
  /\ pc \in {"idle", "failed"}
  /\ last_op' = "__del__"
  /\ args' = <<>>
  /\ IF closed = "unset"
     THEN /\ last_err' = "AttributeError"
          /\ Release({x \in Maps : os_held[x]})
          /\ UNCHANGED <<r, closed>>
     ELSE IF closed = "False"
     THEN CloseBody
     ELSE /\ last_err' = "none"
          /\ UNCHANGED <<os_held, os_releases, r, closed>>
  /\ pc' = "gone"
  /\ writes' = {}
  /\ swap_calls' = 0
  /\ UNCHANGED <<hwVars, params, store_raw, led, idle_calls, blink_i>>
  /\ UNCHANGED <<caller, status, which, where, where_half, ret_which, prev_which, view,
                 init_err>>

\* ------------------------------------------------- LEDs
\* Each statement self.r[11] &= m / self.r[11] |= m is one step: a read of
\* register 11 and the write of the value computed from it.

\* Line 132 with a mask one bit too wide: self.r[11] & ~(0x1FF << 4)
OffValue_wide(v) == BitClear(v, (2 * LedField + 1) * (LedShift \div 2))
\* Line 132: self.r[11] & ~(0xFF << 5)
OffValue(v) == BitClear(v, LedField * LedShift)
\* Line 135: self.r[11] | (0xFF << 5)
OnValue(v) == BitOr(v, LedField * LedShift)
\* Lines 141, 159, 164: self.r[11] | (values_list[i] << 5)
RenderValue(v, pattern) == BitOr(v, pattern * LedShift)

\* values_list[i] of Python: negative i counts from the end.
InRange(list, i) == -Len(list) <= i /\ i < Len(list)
Item(list, i) == IF i >= 0 THEN list[i + 1] ELSE list[Len(list) + i + 1]

\* Lines 142-154 with the upper bounce re-entering at 15.
IdleAdvance_reenter15(l) ==
  IF l.idle_num > l.previous_idle_num
  THEN [l EXCEPT !.previous_idle_num = l.idle_num,
                 !.idle_num = IF l.idle_num + 1 = 16 THEN 15 ELSE l.idle_num + 1]
  ELSE [l EXCEPT !.previous_idle_num = l.idle_num,
                 !.idle_num = IF l.idle_num - 1 = -1 THEN 1 ELSE l.idle_num - 1]

\* Lines 142-154: the position counter after one LED_idle call.
IdleAdvance(l) ==
  IF l.idle_num > l.previous_idle_num
  THEN [l EXCEPT !.previous_idle_num = l.idle_num,
                 !.idle_num = IF l.idle_num + 1 = 16 THEN 14 ELSE l.idle_num + 1]
  ELSE [l EXCEPT !.previous_idle_num = l.idle_num,
                 !.idle_num = IF l.idle_num - 1 = -1 THEN 1 ELSE l.idle_num - 1]

\* Lines 178-180: the blink counter after one LED_recording call.
RecAdvance(l) ==
  [l EXCEPT !.rec_blink_value = IF l.rec_blink_value + 1 = BlinkWrap
                                THEN 0 ELSE l.rec_blink_value + 1]

\* Calls of the idle animation covered by one period of the position counter.
IdlePeriod == 2 * (Len(IdleValues) - 1)

\* What every step of a LED operation leaves alone.
LedFrame ==
  /\ UNCHANGED <<r0, r0_init, bus_stores, active, offset, r3_half, hw_swapped>>
  /\ UNCHANGED <<osVars, closed, r, params, store_raw>>
  /\ UNCHANGED <<caller, status, which, where, where_half, ret_which, prev_which, view,
                 init_err>>

\* A LED operation is called from the caller's loop.
LedCall(name, a) ==
  /\ pc = "idle"
  /\ last_op' = name
  /\ args' = a
  /\ swap_calls' = 0

\* self.r is None after close: self.r[11] raises TypeError.
LedOnClosed ==
  /\ last_err' = "TypeError"
  /\ writes' = {}
  /\ UNCHANGED <<regs, pc, led, idle_calls, blink_i>>

\* Lines 131-132.
LED_off ==
  /\ LedCall("LED_off", <<>>)
  /\ IF r # "view"
     THEN LedOnClosed
     ELSE /\ regs' = RegStore(11, OffValue(RegRead(11)))
          /\ writes' = {11}
          /\ last_err' = "none"
          /\ UNCHANGED <<pc, led, idle_calls, blink_i>>
  /\ LedFrame

\* Lines 134-135.
LED_on ==
  /\ LedCall("LED_on", <<>>)
  /\ IF r # "view"
     THEN LedOnClosed
     ELSE /\ regs' = RegStore(11, OnValue(RegRead(11)))
          /\ writes' = {11}
          /\ last_err' = "none"
          /\ UNCHANGED <<pc, led, idle_calls, blink_i>>
  /\ LedFrame

\* Lines 137-138: LED_idle is called and clears the field.
LED_idle ==
  /\ LedCall("LED_idle", <<>>)
  /\ IF r # "view"
     THEN LedOnClosed
     ELSE /\ regs' = RegStore(11, OffValue(RegRead(11)))
          /\ writes' = {11}
          /\ last_err' = "none"
          /\ pc' = "idle_or"
          /\ UNCHANGED <<led, idle_calls, blink_i>>
  /\ LedFrame

\* Lines 141-154: the position is rendered and the counter advanced.
LED_idle_render ==
  /\ pc = "idle_or"
  /\ regs' = RegStore(11, RenderValue(RegRead(11), Item(IdleValues, led.idle_num)))
  /\ led' = IdleAdvance(led)
  /\ idle_calls' = (idle_calls + 1) % IdlePeriod
  /\ pc' = "idle"
  /\ UNCHANGED <<blink_i, swap_calls, last_op, last_err, args, writes>>
  /\ LedFrame

\* Line 157: button_press_indicate is called and clears the field.
button_press_indicate(number) ==
  /\ LedCall("button_press_indicate", <<number>>)
  /\ IF r # "view"
     THEN LedOnClosed
     ELSE /\ regs' = RegStore(11, OffValue(RegRead(11)))
          /\ writes' = {11}
          /\ last_err' = "none"
          /\ pc' = "press_or"
          /\ UNCHANGED <<led, idle_calls, blink_i>>
  /\ LedFrame

\* Lines 158-159: the table is indexed and the pattern rendered.
button_press_indicate_render ==
  /\ pc = "press_or"
  /\ IF InRange(PressValues, args[1])
     THEN /\ regs' = RegStore(11, RenderValue(RegRead(11), Item(PressValues, args[1])))
          /\ UNCHANGED last_err
     ELSE /\ last_err' = "IndexError"
          /\ UNCHANGED regs
  /\ pc' = "idle"
  /\ UNCHANGED <<led, idle_calls, blink_i, swap_calls, last_op, args, writes>>
  /\ LedFrame

\* Line 162: button_press_indicate_r is called and clears the field.
button_press_indicate_r(number) ==
  /\ LedCall("button_press_indicate_r", <<number>>)
  /\ IF r # "view"
     THEN LedOnClosed
     ELSE /\ regs' = RegStore(11, OffValue(RegRead(11)))
          /\ writes' = {11}
          /\ last_err' = "none"
          /\ pc' = "press_r_or"
          /\ UNCHANGED <<led, idle_calls, blink_i>>
  /\ LedFrame

\* Lines 163-164: the table is indexed and the pattern rendered.
button_press_indicate_r_render ==
  /\ pc = "press_r_or"
  /\ IF InRange(PressValuesR, args[1])
     THEN /\ regs' = RegStore(11, RenderValue(RegRead(11), Item(PressValuesR, args[1])))
          /\ UNCHANGED last_err
     ELSE /\ last_err' = "IndexError"
          /\ UNCHANGED regs
  /\ pc' = "idle"
  /\ UNCHANGED <<led, idle_calls, blink_i, swap_calls, last_op, args, writes>>
  /\ LedFrame

\* Lines 166-180 with lines 178-180 outside the else: a call made with the
\* button held counts as well.
LED_recording_counts_held ==
  /\ LedCall("LED_recording", <<>>)
  /\ IF r # "view"
     THEN LedOnClosed
     ELSE /\ writes' = {}
          /\ last_err' = "none"
          /\ IF RegRead(11) % 2 = 1
             THEN /\ led' = RecAdvance(led)
                  /\ UNCHANGED pc
             ELSE IF led.rec_blink_value % BlinkEvery = 0
             THEN /\ pc' = "rec_toggle"
                  /\ UNCHANGED led
             ELSE /\ led' = RecAdvance(led)
                  /\ UNCHANGED pc
          /\ UNCHANGED <<regs, idle_calls, blink_i>>
  /\ LedFrame

\* Lines 166-170 and 178-180: LED_recording is called and reads the button;
\* held, it returns; on a call that is not a fifth one it only counts.
LED_recording ==
  /\ LedCall("LED_recording", <<>>)
  /\ IF r # "view"
     THEN LedOnClosed
     ELSE /\ writes' = {}
          /\ last_err' = "none"
          /\ IF RegRead(11) % 2 = 1
             THEN UNCHANGED <<pc, led>>
             ELSE IF led.rec_blink_value % BlinkEvery = 0
             THEN /\ pc' = "rec_toggle"
                  /\ UNCHANGED led
             ELSE /\ led' = RecAdvance(led)
                  /\ UNCHANGED pc
          /\ UNCHANGED <<regs, idle_calls, blink_i>>
  /\ LedFrame

\* Lines 171-180 without lines 173 and 176: the phase is never flipped.
LED_recording_toggle_nophase ==
  /\ pc = "rec_toggle"
  /\ IF led.rec_blink_state
     THEN regs' = RegStore(11, OnValue(RegRead(11)))
     ELSE regs' = RegStore(11, OffValue(RegRead(11)))
  /\ led' = RecAdvance(led)
  /\ writes' = {11}
  /\ pc' = "idle"
  /\ UNCHANGED <<idle_calls, blink_i, swap_calls, last_op, last_err, args>>
  /\ LedFrame

\* Lines 171-180: the field is switched to the phase and the phase flipped.
LED_recording_toggle ==
  /\ pc = "rec_toggle"
  /\ IF led.rec_blink_state
     THEN /\ regs' = RegStore(11, OnValue(RegRead(11)))
          /\ led' = RecAdvance([led EXCEPT !.rec_blink_state = FALSE])
     ELSE /\ regs' = RegStore(11, OffValue(RegRead(11)))
          /\ led' = RecAdvance([led EXCEPT !.rec_blink_state = TRUE])
  /\ writes' = {11}
  /\ pc' = "idle"
  /\ UNCHANGED <<idle_calls, blink_i, swap_calls, last_op, last_err, args>>
  /\ LedFrame

\* Lines 183-185: LED_quick_blink is called and clears the field.
LED_quick_blink ==
  /\ LedCall("LED_quick_blink", <<>>)
  /\ IF r # "view"
     THEN LedOnClosed
     ELSE /\ regs' = RegStore(11, OffValue(RegRead(11)))
          /\ writes' = {11}
          /\ last_err' = "none"
          /\ blink_i' = 0
          /\ pc' = "blink_on"
          /\ UNCHANGED <<led, idle_calls>>
  /\ LedFrame

\* Lines 186-188: the field is lit and the thread sleeps.
LED_quick_blink_on ==
  /\ pc = "blink_on"
  /\ regs' = RegStore(11, OnValue(RegRead(11)))
  /\ pc' = "blink_off"
  /\ UNCHANGED <<led, idle_calls, blink_i, swap_calls, last_op, last_err, args, writes>>
  /\ LedFrame

\* Lines 189-190 and 186: the field is cleared, the thread sleeps and the
\* loop goes round or ends.
LED_quick_blink_off ==
  /\ pc = "blink_off"
  /\ regs' = RegStore(11, OffValue(RegRead(11)))
  /\ blink_i' = blink_i + 1
  /\ pc' = IF blink_i + 1 = NumBlinks THEN "idle" ELSE "blink_on"
  /\ UNCHANGED <<led, idle_calls, swap_calls, last_op, last_err, args, writes>>
  /\ LedFrame

\* ------------------------------------------------- specification
Next ==
  \/ open_buf_fd
  \/ open_reg_fd
  \/ map_buf
  \/ map_reg
  \/ test_register
  \/ read_params
  \/ drain
  \/ swap_buffers
  \/ swap_buffers_spin
  \/ swap_buffers_return
  \/ get_data
  \/ get_data_return
  \/ \E gain \in GainInputs : set_gain(gain)
  \/ \E b \in BOOLEAN : set_use_fake_mics(b)
  \/ \E b \in BOOLEAN, wait \in BOOLEAN : set_store_raw_data(b, wait)
  \/ set_store_raw_data_wait
  \/ close
  \/ __del__
  \/ hw_write_frame
  \/ hw_swap

Spec == Init /\ [][Next]_vars

\* A session as its constructor returns it: the bus answered the liveness
\* check, no swap is pending, nothing is pressed and no LED is lit.
Constructed ==
  /\ r0_init = <<65535, 65535>>
  /\ r0 = Permute(r0_init)
  /\ bus_stores = TRUE
  /\ active = 0
  /\ \E p1 \in R8Values, p2 \in R9Values :
       /\ regs = [i \in RegIdx |->
                   CASE i = 2 -> 2
                     [] i = 8 -> p1
                     [] i = 9 -> p2
                     [] OTHER -> 0]
       /\ params = [num_mics |-> p1 % 256, num_chans |-> (p1 \div 256) % 256,
                    num_taps |-> (p1 \div 65536) % 256, mic_freq_hz |-> p2 % 65536]
  /\ offset = 0
  /\ r3_half = 1
  /\ hw_swapped = FALSE
  /\ os_held = [x \in Res |-> TRUE]
  /\ os_releases = [x \in Res |-> 0]
  /\ pc = "idle"
  /\ closed = "False"
  /\ r = "view"
  /\ store_raw = FALSE
  /\ led = [idle_num |-> 0, previous_idle_num |-> -1,
            rec_blink_value |-> 0, rec_blink_state |-> TRUE]
  /\ idle_calls = 0
  /\ blink_i = 0
  /\ caller = "none"
  /\ status = 2
  /\ which = 0
  /\ where = 0
  /\ where_half = 0
  /\ ret_which = -1
  /\ prev_which = -1
  /\ view = NoView
  /\ swap_calls = 0
  /\ last_op = "__init__"
  /\ last_err = "none"
  /\ args = <<>>
  /\ init_err = "none"
  /\ writes = {0}

\* The LED operations of a constructed session, called one after another in
\* any order from the caller's loop, next to the board's inputs.
NextLED ==
  \/ LED_off
  \/ LED_on
  \/ LED_idle
  \/ LED_idle_render
  \/ \E number \in PressSome : button_press_indicate(number)
  \/ button_press_indicate_render
  \/ \E number \in PressSome : button_press_indicate_r(number)
  \/ button_press_indicate_r_render
  \/ LED_recording
  \/ LED_recording_toggle
  \/ LED_quick_blink
  \/ LED_quick_blink_on
  \/ LED_quick_blink_off
  \/ hw_input

SpecLED == Constructed /\ [][NextLED]_vars

\* The pattern operations alone: the idle animation, the press counts and
\* the plain on / off / blink, next to the board's inputs.
NextPattern ==
  \/ LED_off
  \/ LED_on
  \/ LED_idle
  \/ LED_idle_render
  \/ \E number \in PressInputs : button_press_indicate(number)
  \/ button_press_indicate_render
  \/ \E number \in PressInputs : button_press_indicate_r(number)
  \/ button_press_indicate_r_render
  \/ LED_quick_blink
  \/ LED_quick_blink_on
  \/ LED_quick_blink_off
  \/ hw_input

SpecPattern == Constructed /\ [][NextPattern]_vars

\* The recording indicator alone: LED_recording called again and again
\* while the button is pressed and released, with the field switched on and
\* off by hand in between.
NextRec ==
  \/ LED_recording
  \/ LED_recording_toggle
  \/ LED_off
  \/ LED_on
  \/ hw_input

SpecRec == Constructed /\ [][NextRec]_vars

\* The session's construction and buffer swapping alone, next to the board.
NextSwap ==
  \/ open_buf_fd
  \/ open_reg_fd
  \/ map_buf
  \/ map_reg
  \/ test_register
  \/ read_params
  \/ drain
  \/ swap_buffers
  \/ swap_buffers_spin
  \/ swap_buffers_return
  \/ get_data
  \/ get_data_return
  \/ hw_write_frame
  \/ hw_swap

\* The board eventually serves every pending swap request, and the software
\* thread, once inside a call, keeps executing it.
SpecFair ==
  /\ Init
  /\ [][NextSwap]_vars
  /\ WF_vars(hw_swap)
  /\ WF_vars(drain)
  /\ WF_vars(swap_buffers_spin)
  /\ WF_vars(swap_buffers_return)
  /\ WF_vars(get_data_return)

\* ------------------------------------------------- properties
\* Error kinds of the design, as the exception classes the code raises.
DeviceUnavailable == {"PermissionError", "OSError"}
BusNotResponding == "ValueError"
InvalidArgument == "ValueError"
UseAfterClose == "ValueError"

\* The session is open and between two operations.
OpenIdle == pc = "idle" /\ closed = "False"

\* A swap_buffers call of the current operation has returned.
SwapReturned == pc = "reshape" \/ (pc = "idle" /\ swap_calls >= 1)

\* C1: two consecutive swap_buffers calls return different which_half values,
\* and a call returns only on a status value whose busy bit (bit 0) is 0, from
\* which which_half was decoded.
C1_SwapToggles ==
  /\ (ret_which # -1 /\ prev_which # -1) => ret_which # prev_which
  /\ (pc = "where" \/ SwapReturned) => status % 2 = 0
  /\ SwapReturned => ret_which = (status \div 2) % 2

\* Two swap_buffers calls have returned, halves 1 then 0.
C1_Witness ==
  /\ pc = "idle"
  /\ last_op = "swap_buffers"
  /\ prev_which = 1
  /\ ret_which = 0

C3_ViewIsReadyHalf ==
  view # NoView =>
    /\ view.half # active
    /\ view.half = which
    /\ where_half = view.half

\* A non-empty view is out while the board is writing the other half.
C3_Witness ==
  /\ view # NoView
  /\ view.rows > 0
  /\ offset > 0
  /\ pc = "idle"

\* C4: a get_data call that returns has made exactly one swap request and
\* returns (byte offset div 2) samples of the returned half in rows of
\* num_mics (raw mode) or num_chans (processed mode); offset 800 gives 100
\* rows of 4 and 200 rows of 2.
C4_GetDataShape ==
  /\ (pc = "idle" /\ last_op = "get_data" /\ last_err = "none") =>
       /\ swap_calls = 1
       /\ view.half = ret_which
       /\ view.rows * view.cols = where \div 2
       /\ view.cols = (IF store_raw THEN params.num_mics ELSE params.num_chans)
  /\ Reshape(800 \div 2, 4) = <<TRUE, 100, 4>>
  /\ Reshape(800 \div 2, 2) = <<TRUE, 200, 2>>

\* get_data returned one row of the four microphones in raw mode.
C4_Witness ==
  /\ pc = "idle"
  /\ last_op = "get_data"
  /\ last_err = "none"
  /\ store_raw
  /\ where = 8
  /\ view.rows = 1
  /\ view.cols = 4

\* The liveness check of the constructor has run.
Tested == pc \notin {"new", "open_reg_fd", "map_buf", "map_reg", "test"}
          /\ init_err \notin DeviceUnavailable

\* C5: for every initial value of register 0, the liveness check fails with
\* BusNotResponding on a bus that does not store the write, and passes on a
\* bus that stores it, leaving the permuted value in register 0.
C5_LivenessCheck ==
  Tested =>
    IF bus_stores
    THEN init_err # BusNotResponding /\ r0 = Permute(r0_init)
    ELSE init_err = BusNotResponding

\* C6: after a construction that failed in one of the four acquisition steps
\* (and after the finalizer of the dropped object has run) no descriptor and
\* no mapping is still held, and the failure is DeviceUnavailable.
C6_FailedAcquireReleasesAll ==
  (pc = "gone" /\ init_err \notin {"none", BusNotResponding}) =>
    /\ init_err \in DeviceUnavailable
    /\ \A x \in Res : ~os_held[x]

\* C7: every operation called on a closed session fails with the
\* UseAfterClose error of a second close, and releases nothing again.
C7_UseAfterClose ==
  (pc = "idle" /\ closed = "True" /\ ~(last_op = "close" /\ last_err = "none")) =>
    /\ last_err = UseAfterClose
    /\ \A x \in Res : os_releases[x] = 1

\* C8: for a successfully constructed session each mapping and descriptor is
\* released at most once whatever close calls are made, and exactly once and
\* no longer held when the finalizer has run.
C8_ReleasedExactlyOnce ==
  init_err = "none" =>
    /\ \A x \in Res : os_releases[x] <= 1
    /\ \A x \in Res : os_held[x] <=> os_releases[x] = 0
    /\ pc = "gone" => \A x \in Res : os_releases[x] = 1 /\ ~os_held[x]

\* The finalizer has run on a successfully constructed session and every
\* resource has been released once.
C8_Witness ==
  /\ pc = "gone"
  /\ init_err = "none"
  /\ \A x \in Res : os_releases[x] = 1

\* C9, state part: after set_gain(g) on an open session, register 4 reads
\* g - 1 and it was the only write if 1 <= g <= 256; otherwise the call
\* failed with InvalidArgument and wrote nothing.
C9_AfterSetGain ==
  (OpenIdle /\ last_op = "set_gain") =>
    IF args[1] >= 1 /\ args[1] <= 256
    THEN last_err = "none" /\ RegRead(4) = args[1] - 1 /\ writes = {4}
    ELSE last_err = InvalidArgument /\ writes = {}

\* C9, step part: a set_gain step with g out of range changes no register,
\* and one with g in range changes no register other than 4.
C9_SetGainStep ==
  \A g \in GainInputs :
    set_gain(g) =>
      /\ r0' = r0
      /\ \A i \in RegIdx : (i # 4 \/ g < 1 \/ g > 256) => regs'[i] = regs[i]

\* C9: set_gain(g) writes g - 1 to register 4 for 1 <= g <= 256 and fails
\* with InvalidArgument without any register write for every other g.
C9_SetGain == [] C9_AfterSetGain /\ [][C9_SetGainStep]_vars

\* set_gain(256) returned with 255 in register 4, over a different value.
C9_Witness ==
  /\ OpenIdle
  /\ last_op = "set_gain"
  /\ args = <<256>>
  /\ RegRead(4) = 255
  /\ last_err = "none"

\* C10: whenever the open session is between operations (after construction,
\* after every return of set_store_raw_data) the mirror is raw exactly when
\* the mode bit of register 10 is 1.
C10_MirrorMatchesRegister ==
  OpenIdle => (store_raw <=> RegRead(10) % 2 = 1)

\* set_store_raw_data(True, wait=True) has returned on a session that was
\* constructed in processed mode.
C10_Witness ==
  /\ OpenIdle
  /\ last_op = "set_store_raw_data"
  /\ args = <<TRUE, TRUE>>
  /\ swap_calls = 1
  /\ store_raw
  /\ RegRead(10) = 1

\* C11, state part: after set_store_raw_data(b, wait) returns on an open
\* session, wait=True has made exactly one swap request, which the board has
\* served, and wait=False none; while the call sleeps or swaps, register 10
\* already holds the new mode bit and at most that one request was written.
C11_AfterSetStore ==
  /\ (OpenIdle /\ last_op = "set_store_raw_data") =>
       /\ last_err = "none"
       /\ IF args[2]
          THEN swap_calls = 1 /\ writes = {10, 2} /\ hw_swapped
          ELSE swap_calls = 0 /\ writes = {10}
  /\ (pc = "sleep") =>
       /\ swap_calls = 0
       /\ writes = {10}
       /\ RegRead(10) = (IF args[1] THEN 1 ELSE 0)
  /\ (pc \in {"spin", "where"} /\ caller = "set_store_raw_data") =>
       /\ swap_calls = 1
       /\ RegRead(10) = (IF args[1] THEN 1 ELSE 0)

\* C11, step part: a set_store_raw_data(b, wait=False) step returns at once
\* and leaves register 2 alone; with wait=True the first step writes register
\* 10 and no request yet.
C11_SetStoreStep ==
  \A b \in BOOLEAN, w \in BOOLEAN :
    (set_store_raw_data(b, w) /\ r = "view") =>
      /\ regs'[2] = regs[2]
      /\ regs'[10] = (IF b THEN 1 ELSE 0)
      /\ pc' = (IF w THEN "sleep" ELSE "idle")

\* C11: set_store_raw_data(b, wait=True) writes the mode bit to register 10,
\* then waits, then performs exactly one acknowledged swap_buffers before it
\* returns; with wait=False it issues no swap request.
C11_SetStoreOrder == [] C11_AfterSetStore /\ [][C11_SetStoreStep]_vars

\* set_store_raw_data(False, wait=True) has returned after its one swap.
C11_Witness ==
  /\ OpenIdle
  /\ last_op = "set_store_raw_data"
  /\ args = <<FALSE, TRUE>>
  /\ swap_calls = 1
  /\ hw_swapped
  /\ RegRead(10) = 0

\* C15, state part: a freshly constructed session has seen the busy bit
\* clear, no swap is in flight, the parameters are decoded and register 0 is
\* the only register the constructor wrote.
C15_AfterInit ==
  /\ (pc = "idle" /\ last_op = "__init__") =>
       /\ init_err = "none"
       /\ status % 2 = 0
       /\ RegRead(2) % 2 = 0
       /\ params # NoParams
       /\ writes = {0}
  /\ init_err = "running" => writes \subseteq {0}

\* C15, step part: the constructor returns from the drain loop, on a read of
\* register 2 with bit 0 clear made after the liveness check and the
\* parameter reads; and while it runs the request bit is never raised.
C15_InitStep ==
  /\ (init_err = "running" /\ init_err' = "none") =>
       /\ pc = "drain"
       /\ Tested
       /\ params # NoParams
       /\ RegRead(2) % 2 = 0
       /\ status' = RegRead(2)
  /\ init_err = "running" => ~(regs[2] % 2 = 0 /\ regs'[2] % 2 = 1)

\* C15: construction returns only after it has observed the busy bit clear,
\* after the liveness check and the parameter reads, and it never writes a
\* swap request itself.
C15_DrainBeforeReturn == [] C15_AfterInit /\ [][C15_InitStep]_vars

\* The constructor has returned on a board that was still serving a swap
\* left over from before the session: the swap completed during construction.
C15_Witness ==
  /\ pc = "idle"
  /\ last_op = "__init__"
  /\ init_err = "none"
  /\ hw_swapped

\* The first os.open of the constructor failed: no descriptor was ever held.
FirstOpenFailed ==
  /\ init_err \in DeviceUnavailable
  /\ ~os_held["buf_fd"]
  /\ os_releases["buf_fd"] = 0

\* C16: when the first os.open fails, for whatever reason, the session holds
\* nothing, nothing is ever released on it, and the finalizer is a no-op that
\* raises nothing.
C16_FailedOpenNoRelease ==
  FirstOpenFailed =>
    /\ \A x \in Res : ~os_held[x] /\ os_releases[x] = 0
    /\ pc = "gone" => last_err = "none"

\* C20: a construction that fails at the liveness check holds both
\* descriptors and both mappings until the finalizer runs, which releases
\* each of them exactly once.
C20_BusFailureReleasedOnce ==
  init_err = BusNotResponding =>
    /\ \A x \in Res : os_releases[x] <= 1
    /\ \A x \in Res : os_held[x] <=> os_releases[x] = 0
    /\ pc = "failed" => (closed = "False" /\ \A x \in Res : os_held[x])
    /\ pc = "gone" => \A x \in Res : os_releases[x] = 1 /\ ~os_held[x]

\* The finalizer has run after a failed liveness check and closed the session.
C20_Witness ==
  /\ init_err = BusNotResponding
  /\ pc = "gone"
  /\ last_op = "__del__"
  /\ closed = "True"
  /\ \A x \in Res : os_releases[x] = 1

\* C17, step part: a spin loop is left only on a read of register 2 with
\* bit 0 clear (there is no other exit: no bound, no timeout), and a set busy
\* bit is cleared by nothing but the board completing the swap.
C17_LoopExitStep ==
  /\ (pc \in {"spin", "drain"} /\ pc' # pc) => (RegRead(2) % 2 = 0 /\ status' = RegRead(2))
  /\ (regs[2] % 2 = 1 /\ regs'[2] % 2 = 0) => (active' # active /\ hw_swapped')

\* C17: with a board that eventually serves every swap request, the drain
\* loop of the constructor, every swap_buffers call and every get_data call
\* eventually return; and they return on no other ground than the board
\* having cleared the busy bit.
C17_SpinLoopsReturn ==
  /\ (pc = "drain") ~> (pc = "idle" /\ init_err = "none")
  /\ (pc \in {"spin", "where", "reshape"}) ~> (pc = "idle")
  /\ [][C17_LoopExitStep]_vars

\* A spin loop has read the busy bit set and the board is still busy.
C17_Witness ==
  /\ pc = "spin"
  /\ caller = "get_data"
  /\ status % 2 = 1
  /\ RegRead(2) % 2 = 1

\* The position the idle animation shows on its call number k + 1, counted
\* within one period: 0, 1, ..., 15, 14, ..., 1.
Bounce(k) == IF k < Len(IdleValues) THEN k ELSE IdlePeriod - k

\* LED_idle has returned and nothing else has been called since.
IdleReturned == pc = "idle" /\ last_op = "LED_idle" /\ last_err = "none"

\* C12: after any number of LED_idle calls the position counter is within
\* 0..15 and is the next term of 0,1,...,15,14,...,1,0,1,...; the call that
\* just returned rendered the term before it, so 15 and 0 are each rendered
\* once per turn and the sequence re-enters at 14 and at 1.
C12_IdleBounce ==
  /\ led.idle_num \in 0 .. 15
  /\ led.idle_num = Bounce(idle_calls)
  /\ IdleReturned =>
       Field(regs[11]) = Item(IdleValues, Bounce((idle_calls + IdlePeriod - 1) % IdlePeriod))

\* Thirty calls have been made: the position rose to 15, re-entered at 14,
\* fell to 0 and the thirtieth call rendered position 1.
C12_Witness ==
  /\ IdleReturned
  /\ idle_calls = 0
  /\ led.idle_num = 0
  /\ led.previous_idle_num = 1

\* The low n bits of p in reverse order (bit i swapped with bit n - 1 - i).
RECURSIVE BitReverse(_, _)
BitReverse(p, n) ==
  IF n = 0 THEN 0 ELSE (p % 2) * 2 ^ (n - 1) + BitReverse(p \div 2, n - 1)

\* The LED field the press operation with table list would leave for number.
Rendered(list, number) ==
  Field(RenderValue(OffValue(RegRead(11)), Item(list, number)))

\* A press operation has returned for a number within its table and nothing
\* else has been called since.
PressReturned(name) ==
  /\ pc = "idle"
  /\ last_op = name
  /\ last_err = "none"
  /\ args[1] \in 0 .. 8

\* C13 as stated: the pattern button_press_indicate(n) renders is the
\* bit-reverse of the pattern button_press_indicate_r(8 - n) renders.
C13_BitReversed ==
  PressReturned("button_press_indicate") =>
    Field(regs[11]) = BitReverse(Rendered(PressValuesR, 8 - args[1]), 8)

\* C13, amended: for every n in 0..8 the pattern button_press_indicate(n)
\* renders is the very pattern button_press_indicate_r(8 - n) renders, and
\* the other way round (the tables are each other read backwards; n LEDs
\* are lit from the most significant end in both).
C13_SamePattern ==
  /\ PressReturned("button_press_indicate") =>
       Field(regs[11]) = Rendered(PressValuesR, 8 - args[1])
  /\ PressReturned("button_press_indicate_r") =>
       Field(regs[11]) = Rendered(PressValues, 8 - args[1])

\* button_press_indicate(3) has returned and left 0xE0, a pattern that is
\* not its own mirror image.
C13_Witness ==
  /\ PressReturned("button_press_indicate")
  /\ args = <<3>>
  /\ Field(regs[11]) = 224
  /\ BitReverse(224, 8) = 7

\* The button bit LED_recording reads (get_button_state, lines 112-119).
ButtonHeld == RegRead(11) % 2 = 1

\* C14, step part. A LED_recording call made with the button not held, at
\* blink counter v: if v is not a multiple of 5 it writes nothing and
\* returns with the counter at v + 1 (0 after 99); if v is a multiple of 5
\* it goes on to switch the field, all eight on when v \div 5 is even and
\* all eight off when it is odd, and returns with the counter at v + 1.
C14_RecordingStep ==
  LET v == led.rec_blink_value
  IN  /\ (LED_recording /\ ~ButtonHeld /\ v % 5 # 0) =>
           /\ regs' = regs
           /\ pc' = "idle"
           /\ led'.rec_blink_value = (v + 1) % 100
      /\ (LED_recording /\ ~ButtonHeld /\ v % 5 = 0) =>
           /\ regs' = regs
           /\ pc' = "rec_toggle"
      /\ LED_recording_toggle =>
           /\ v % 5 = 0
           /\ Field(regs'[11]) = IF (v \div 5) % 2 = 0 THEN 255 ELSE 0
           /\ pc' = "idle"
           /\ led'.rec_blink_value = (v + 1) % 100

\* C14: the blink counter is always within 0..99, LED_recording calls made
\* with the button not held advance it by one with 0 following 99, and the
\* calls at counter values 0, 5, ..., 95 - and no others - switch the LED
\* field, all on and all off in turn, starting with on.
C14_RecordingBlink ==
  /\ [](led.rec_blink_value \in 0 .. 99)
  /\ [][C14_RecordingStep]_vars

\* The call at counter value 95, the twentieth to switch the field, has
\* switched it off and returned with the counter at 96.
C14_Witness ==
  /\ pc = "idle"
  /\ last_op = "LED_recording"
  /\ writes = {11}
  /\ led.rec_blink_value = 96
  /\ led.rec_blink_state
  /\ Field(regs[11]) = 0

\* C19, step part: a LED_recording call that reads the button held returns
\* at once, with no register written and the blink counter and phase as
\* they were.
C19_HeldStep ==
  (LED_recording /\ ButtonHeld) =>
    /\ regs' = regs
    /\ r0' = r0
    /\ writes' = {}
    /\ led' = led
    /\ pc' = "idle"
    /\ last_err' = "none"

\* C19: LED_recording called while the record button is held (register 11
\* bit 0 set) writes no register and leaves the blink counter and the blink
\* phase unchanged.
C19_HeldRecordingIsNoOp == [][C19_HeldStep]_vars

\* A call was made with the button held in the middle of the cadence: the
\* counter stands at 6, one past a switching call, and the call that
\* returned last wrote nothing.
C19_Witness ==
  /\ pc = "idle"
  /\ last_op = "LED_recording"
  /\ last_err = "none"
  /\ writes = {}
  /\ ButtonHeld
  /\ led.rec_blink_value = 6
  /\ led.rec_blink_state
  /\ Field(regs[11]) = 0

\* A step of one of the LED-writing operations.
LedStep ==
  \/ LED_off
  \/ LED_on
  \/ LED_idle
  \/ LED_idle_render
  \/ \E number \in PressSome : button_press_indicate(number)
  \/ button_press_indicate_render
  \/ \E number \in PressSome : button_press_indicate_r(number)
  \/ button_press_indicate_r_render
  \/ LED_recording
  \/ LED_recording_toggle
  \/ LED_quick_blink
  \/ LED_quick_blink_on
  \/ LED_quick_blink_off

\* C18, step part: the value a LED step leaves in register 11 has bits 0..4
\* and bits 13 and above as the step read them, and no other register is
\* written.
C18_LedStepFrame ==
  LedStep =>
    /\ Inputs(regs'[11]) = Inputs(regs[11])
    /\ \A i \in RegIdx \ {11} : regs'[i] = regs[i]
    /\ r0' = r0
    /\ writes' \subseteq {11}

\* C18: LED_off, LED_on, LED_idle, button_press_indicate,
\* button_press_indicate_r, LED_recording and LED_quick_blink change only
\* bits 5..12 of register 11 and write no other register.
C18_OnlyLedField == [][C18_LedStepFrame]_vars

\* button_press_indicate(3) has rendered 0xE0 with the button, the switch
\* and the off-button all asserted around the field.
C18_Witness ==
  /\ pc = "idle"
  /\ last_op = "button_press_indicate"
  /\ args = <<3>>
  /\ last_err = "none"
  /\ writes = {11}
  /\ Inputs(regs[11]) = 1 + 2 * 15 + 8192
  /\ Field(regs[11]) = 224

====
